---- MODULE Spec2Model ----
(***************************************************************************)
(* Model of the EV battery engine (src/ev_battery_system.py): the class    *)
(* EVBatterySystem with its three fields and six methods, and the          *)
(* text-prompt flow main().                                                *)
(*                                                                         *)
(* Numbers.  The program computes on Python floats.  The model computes on *)
(* exact rationals [n |-> numerator, d |-> denominator > 0] in lowest      *)
(* terms, so that 0.85, 2.5, 0.88 ... are the values the source writes and *)
(* equality of two numbers is equality of the two records.  round(x, k) is *)
(* decimal rounding to k places; where the exact value lies midway between *)
(* two k-place decimals the float the program holds lies on either side of *)
(* it, so both neighbours are outcomes and Round is the set of outcomes.   *)
(* A method is therefore an operator to the SET of its possible results.   *)
(***************************************************************************)
EXTENDS Integers, Sequences, FiniteSets, TLC

VARIABLES ev, prev, op, args, ret, raised, pc, out, loc

vars == <<ev, prev, op, args, ret, raised, pc, out, loc>>

(***************************************************************************)
(* Rational arithmetic standing for Python float arithmetic.               *)
(***************************************************************************)
Abs(x) == IF x < 0 THEN -x ELSE x

RECURSIVE GCD(_, _)
GCD(a, b) == IF b = 0 THEN a ELSE GCD(b, a % b)

\* the number n/d (d # 0) in lowest terms with a positive denominator
Rat(n, d) ==
    LET g == GCD(Abs(n), Abs(d))
        s == IF d < 0 THEN -1 ELSE 1
    IN  [n |-> (s * n) \div g, d |-> (s * d) \div g]

R(k) == [n |-> k, d |-> 1]

\* x * y, cancelling across before multiplying
RMul(x, y) ==
    LET g1 == GCD(Abs(x.n), y.d)
        g2 == GCD(Abs(y.n), x.d)
    IN  Rat((x.n \div g1) * (y.n \div g2), (x.d \div g2) * (y.d \div g1))

\* x / y for y # 0
RDiv(x, y) == RMul(x, IF y.n < 0 THEN [n |-> -y.d, d |-> -y.n] ELSE [n |-> y.d, d |-> y.n])

RAdd(x, y) ==
    LET g == GCD(x.d, y.d)
    IN  Rat(x.n * (y.d \div g) + y.n * (x.d \div g), (x.d \div g) * y.d)

RNeg(x) == [n |-> -x.n, d |-> x.d]

RSub(x, y) == RAdd(x, RNeg(y))

RSign(x) == IF x.n > 0 THEN 1 ELSE IF x.n < 0 THEN -1 ELSE 0

RLe(x, y) == RSub(x, y).n <= 0

RLt(x, y) == RSub(x, y).n < 0

RMin(x, y) == IF RLe(x, y) THEN x ELSE y

RMax(x, y) == IF RLe(y, x) THEN x ELSE y

Pow10(k) == IF k = 0 THEN 1 ELSE IF k = 1 THEN 10 ELSE IF k = 2 THEN 100
            ELSE IF k = 3 THEN 1000 ELSE 10000

\* k further decimal digits of (q + r/d), by long division
RECURSIVE LongDiv(_, _, _, _)
LongDiv(q, r, d, k) ==
    IF k = 0 THEN [q |-> q, r |-> r]
    ELSE LongDiv(q * 10 + ((r * 10) \div d), (r * 10) % d, d, k - 1)

\* Python round(x, k): the multiples of 10^-k nearest to x (two of them at a tie)
Round(x, k) ==
    LET f == LongDiv(x.n \div x.d, x.n % x.d, x.d, k)
        lo == Rat(f.q, Pow10(k))
        hi == Rat(f.q + 1, Pow10(k))
    IN  IF 2 * f.r > x.d THEN {hi}
        ELSE IF 2 * f.r < x.d THEN {lo}
        ELSE {lo, hi}

(***************************************************************************)
(* class EVBatterySystem.  An object is a record of its three fields; a    *)
(* method is an operator from the object and the arguments to the set of   *)
(* [self |-> the object afterwards, ret |-> the returned value,            *)
(*  raised |-> "None" or the name of the exception raised].                *)
(***************************************************************************)
\* no exception raised
None == "None"

\* the value None (every value of ev, prev and ret is a record)
Nothing == [type |-> "NoneType"]

\* a returned list
List(seq) == [list |-> seq]

Returns(self, values) == {[self |-> self, ret |-> v, raised |-> None] : v \in values}

Raises(self, exc) == {[self |-> self, ret |-> Nothing, raised |-> exc]}

\* __init__(battery_capacity_kwh, initial_soh = 100)
EVBatterySystem(battery_capacity_kwh, initial_soh) ==
    [battery_capacity |-> battery_capacity_kwh,
     soh |-> initial_soh,
     current_charge |-> R(100)]

available_capacity(self) == RDiv(RMul(self.battery_capacity, self.soh), R(100))

calculate_available_capacity(self) == Returns(self, {available_capacity(self)})

base_consumption == 15

\* the first threshold written "< 50"
speed_factor_exclusive(speed_kmh) ==
    IF RLt(speed_kmh, R(50)) THEN Rat(85, 100)
    ELSE IF RLe(speed_kmh, R(80)) THEN R(1)
    ELSE IF RLe(speed_kmh, R(110)) THEN Rat(125, 100)
    ELSE Rat(15, 10)

speed_factor(speed_kmh) ==
    IF RLe(speed_kmh, R(50)) THEN Rat(85, 100)
    ELSE IF RLe(speed_kmh, R(80)) THEN R(1)
    ELSE IF RLe(speed_kmh, R(110)) THEN Rat(125, 100)
    ELSE Rat(15, 10)

temp_factor(temperature_c) ==
    IF RLt(temperature_c, R(0)) THEN Rat(14, 10)
    ELSE IF RLt(temperature_c, R(10)) THEN Rat(125, 100)
    ELSE IF RLt(R(35), temperature_c) THEN Rat(115, 100)
    ELSE R(1)

ac_factor(ac_usage) == IF ac_usage THEN Rat(115, 100) ELSE R(1)

\* style_factors.get(driving_style, 1.0)
style_factor(driving_style) ==
    CASE driving_style = "eco" -> Rat(85, 100)
      [] driving_style = "normal" -> R(1)
      [] driving_style = "sport" -> Rat(13, 10)
      [] OTHER -> R(1)

\* terrain_factors.get(terrain, 1.0)
terrain_factor(terrain) ==
    CASE terrain = "flat" -> R(1)
      [] terrain = "hilly" -> Rat(12, 10)
      [] terrain = "mountain" -> Rat(14, 10)
      [] OTHER -> R(1)

total_consumption(speed_kmh, temperature_c, ac_usage, driving_style, terrain) ==
    RMul(RMul(RMul(RMul(RMul(R(base_consumption), speed_factor(speed_kmh)),
                             temp_factor(temperature_c)),
                        ac_factor(ac_usage)),
                   style_factor(driving_style)),
         terrain_factor(terrain))

usable_capacity(self) == RDiv(RMul(available_capacity(self), self.current_charge), R(100))

predict_range(self, speed_kmh, temperature_c, ac_usage, driving_style, terrain) ==
    LET total == total_consumption(speed_kmh, temperature_c, ac_usage, driving_style, terrain)
        usable == usable_capacity(self)
    IN  IF total.n = 0 THEN Raises(self, "ZeroDivisionError")
        ELSE Returns(self,
               \* (usable / total) * 100 to 2 places is usable / total to 4 places, times 100
               {[range_km |-> RMul(r, R(100)),
                 consumption_per_100km |-> c,
                 available_energy_kwh |-> e] :
                    r \in Round(RDiv(usable, total), 4),
                    c \in Round(total, 2),
                    e \in Round(usable, 2)})

\* predict_range() with every parameter at its default
predict_range_default(self) == predict_range(self, R(60), R(25), FALSE, "normal", "flat")

_get_charger_type(power_kw) ==
    IF RLe(power_kw, Rat(37, 10)) THEN "Level 1 (Home - Standard)"
    ELSE IF RLe(power_kw, R(11)) THEN "Level 2 (Home - Fast)"
    ELSE IF RLe(power_kw, R(60)) THEN "DC Fast Charger"
    ELSE "Ultra-Fast DC Charger"

efficiency == Rat(88, 100)

energy_needed(self, target_charge) ==
    LET current_energy == RDiv(RMul(available_capacity(self), self.current_charge), R(100))
        target_energy == RDiv(RMul(available_capacity(self), target_charge), R(100))
    IN  RSub(target_energy, current_energy)

AlreadyCharged == "Battery already at or above target charge"

\* the guard written "< 0": equal energies go on to the division
calculate_charging_time_strict(self, target_charge, charger_power_kw) ==
    LET needed == energy_needed(self, target_charge)
        charging_time_hours == RDiv(RDiv(needed, efficiency), charger_power_kw)
    IN  IF needed.n < 0
        THEN Returns(self,
               {[charging_time_hours |-> R(0),
                 charging_time_minutes |-> R(0),
                 energy_added_kwh |-> R(0),
                 message |-> AlreadyCharged]})
        ELSE IF charger_power_kw.n = 0 THEN Raises(self, "ZeroDivisionError")
        ELSE Returns(self,
               {[charging_time_hours |-> h,
                 charging_time_minutes |-> m,
                 energy_added_kwh |-> e,
                 charger_type |-> _get_charger_type(charger_power_kw)] :
                    h \in Round(charging_time_hours, 2),
                    m \in Round(RMul(charging_time_hours, R(60)), 1),
                    e \in Round(needed, 2)})

calculate_charging_time(self, target_charge, charger_power_kw) ==
    LET needed == energy_needed(self, target_charge)
        actual_energy_needed == RDiv(needed, efficiency)
        charging_time_hours == RDiv(actual_energy_needed, charger_power_kw)
        charging_time_minutes == RMul(charging_time_hours, R(60))
    IN  IF needed.n <= 0
        THEN Returns(self,
               {[charging_time_hours |-> R(0),
                 charging_time_minutes |-> R(0),
                 energy_added_kwh |-> R(0),
                 message |-> AlreadyCharged]})
        ELSE IF charger_power_kw.n = 0 THEN Raises(self, "ZeroDivisionError")
        ELSE Returns(self,
               {[charging_time_hours |-> h,
                 charging_time_minutes |-> m,
                 energy_added_kwh |-> e,
                 charger_type |-> _get_charger_type(charger_power_kw)] :
                    h \in Round(charging_time_hours, 2),
                    m \in Round(charging_time_minutes, 1),
                    e \in Round(needed, 2)})

_get_health_status(soh) ==
    IF RLe(R(95), soh) THEN "Excellent"
    ELSE IF RLe(R(85), soh) THEN "Good"
    ELSE IF RLe(R(75), soh) THEN "Fair"
    ELSE "Poor - Consider replacement"

total_degradation(years_used, avg_cycles_per_year, fast_charge_percentage) ==
    LET total_cycles == RMul(years_used, avg_cycles_per_year)
        time_degradation == RMul(years_used, Rat(25, 10))
        cycle_degradation == RMul(RDiv(total_cycles, R(1000)), Rat(15, 10))
        fast_charge_impact ==
            RMul(RMul(RDiv(fast_charge_percentage, R(100)), years_used), Rat(12, 10))
    IN  RMin(RAdd(RAdd(time_degradation, cycle_degradation), fast_charge_impact), R(30))

new_soh(degradation) == RMax(RSub(R(100), degradation), R(70))

\* the status taken from the soh as it is reported, rounded to 1 place
health_of_reported(self) ==
    _get_health_status(CHOOSE v \in Round(self.soh, 1) : \A w \in Round(self.soh, 1) : RLe(w, v))

\* self._get_health_status(self.soh)
health_of(self) == _get_health_status(self.soh)

calculate_battery_degradation(self, years_used, avg_cycles_per_year, fast_charge_percentage) ==
    LET total_cycles == RMul(years_used, avg_cycles_per_year)
        degradation ==
            total_degradation(years_used, avg_cycles_per_year, fast_charge_percentage)
        after == [self EXCEPT !.soh = new_soh(degradation)]
    IN  Returns(after,
          {[current_soh |-> s,
            degradation_percentage |-> d,
            estimated_remaining_cycles |-> RMax(R(0), RSub(R(2000), total_cycles)),
            health_status |-> health_of(after)] :
               s \in Round(after.soh, 1),
               d \in Round(degradation, 1)})

\* compare_ev_vs_ice reading the wrong key of range_data: the energy the battery
\* holds instead of the consumption per 100 km
compare_costs_by_energy(self, range_data, annual_km, petrol_price_per_liter, electricity_price_per_kwh, ice_fuel_efficiency) ==
    LET ev_consumption_per_100km == range_data.available_energy_kwh
        ev_energy_per_year == RMul(RDiv(annual_km, R(100)), ev_consumption_per_100km)
        ev_fuel_cost_per_year == RMul(ev_energy_per_year, electricity_price_per_kwh)
        ice_liters_per_year == RDiv(annual_km, ice_fuel_efficiency)
        ice_fuel_cost_per_year == RMul(ice_liters_per_year, petrol_price_per_liter)
        annual_savings == RSub(ice_fuel_cost_per_year, ev_fuel_cost_per_year)
        monthly_savings == RDiv(annual_savings, R(12))
    IN  IF ice_fuel_efficiency.n = 0 THEN Raises(self, "ZeroDivisionError")
        ELSE IF ice_fuel_cost_per_year.n = 0 THEN Raises(self, "ZeroDivisionError")
        ELSE IF annual_km.n = 0 THEN Raises(self, "ZeroDivisionError")
        ELSE Returns(self,
               {[ev_annual_cost |-> e,
                 ice_annual_cost |-> i,
                 annual_savings |-> a,
                 monthly_savings |-> m,
                 savings_percentage |-> RMul(p, R(100)),
                 ev_cost_per_km |-> ek,
                 ice_cost_per_km |-> ik] :
                    e \in Round(ev_fuel_cost_per_year, 2),
                    i \in Round(ice_fuel_cost_per_year, 2),
                    a \in Round(annual_savings, 2),
                    m \in Round(monthly_savings, 2),
                    p \in Round(RDiv(annual_savings, ice_fuel_cost_per_year), 3),
                    ek \in Round(RDiv(ev_fuel_cost_per_year, annual_km), 3),
                    ik \in Round(RDiv(ice_fuel_cost_per_year, annual_km), 3)})

\* the body of compare_ev_vs_ice once predict_range() has returned range_data
compare_costs(self, range_data, annual_km, petrol_price_per_liter, electricity_price_per_kwh, ice_fuel_efficiency) ==
    LET ev_consumption_per_100km == range_data.consumption_per_100km
        ev_energy_per_year == RMul(RDiv(annual_km, R(100)), ev_consumption_per_100km)
        ev_fuel_cost_per_year == RMul(ev_energy_per_year, electricity_price_per_kwh)
        ice_liters_per_year == RDiv(annual_km, ice_fuel_efficiency)
        ice_fuel_cost_per_year == RMul(ice_liters_per_year, petrol_price_per_liter)
        annual_savings == RSub(ice_fuel_cost_per_year, ev_fuel_cost_per_year)
        monthly_savings == RDiv(annual_savings, R(12))
    IN  IF ice_fuel_efficiency.n = 0 THEN Raises(self, "ZeroDivisionError")
        ELSE IF ice_fuel_cost_per_year.n = 0 THEN Raises(self, "ZeroDivisionError")
        ELSE IF annual_km.n = 0 THEN Raises(self, "ZeroDivisionError")
        ELSE Returns(self,
               \* (savings / cost) * 100 to 1 place is savings / cost to 3 places, times 100
               {[ev_annual_cost |-> e,
                 ice_annual_cost |-> i,
                 annual_savings |-> a,
                 monthly_savings |-> m,
                 savings_percentage |-> RMul(p, R(100)),
                 ev_cost_per_km |-> ek,
                 ice_cost_per_km |-> ik] :
                    e \in Round(ev_fuel_cost_per_year, 2),
                    i \in Round(ice_fuel_cost_per_year, 2),
                    a \in Round(annual_savings, 2),
                    m \in Round(monthly_savings, 2),
                    p \in Round(RDiv(annual_savings, ice_fuel_cost_per_year), 3),
                    ek \in Round(RDiv(ev_fuel_cost_per_year, annual_km), 3),
                    ik \in Round(RDiv(ice_fuel_cost_per_year, annual_km), 3)})

compare_ev_vs_ice(self, annual_km, petrol_price_per_liter, electricity_price_per_kwh, ice_fuel_efficiency) ==
    UNION {IF r.raised # None THEN Raises(r.self, r.raised)
           ELSE compare_costs(r.self, r.ret, annual_km, petrol_price_per_liter,
                              electricity_price_per_kwh, ice_fuel_efficiency) :
           r \in predict_range_default(self)}

LowChargeWarning == "Charge soon - Low battery can stress cells"

HighChargeWarning == "Avoid charging to 100% daily - Keep between 20-80% for longevity"

FixedAdvice ==
    <<"Ideal daily range: 20% - 80% charge",
      "Use slow charging when possible - Reduces heat stress",
      "Avoid extreme temperatures while charging",
      "Fast charging: Use only when necessary (<20% of charges)">>

\* the low-charge test written "<= 20"
recommendations_inclusive(current_charge) ==
    (IF RLe(current_charge, R(20)) THEN <<LowChargeWarning>> ELSE <<>>)
    \o (IF RLt(R(90), current_charge) THEN <<HighChargeWarning>> ELSE <<>>)
    \o FixedAdvice

recommendations(current_charge) ==
    (IF RLt(current_charge, R(20)) THEN <<LowChargeWarning>> ELSE <<>>)
    \o (IF RLt(R(90), current_charge) THEN <<HighChargeWarning>> ELSE <<>>)
    \o FixedAdvice

\* a recommendation that also applies its own advice to the object
optimal_charging_recommendation_capping(self) ==
    Returns([self EXCEPT !.current_charge = RMin(self.current_charge, R(80))],
            {List(recommendations(self.current_charge))})

optimal_charging_recommendation(self) ==
    Returns(self, {List(recommendations(self.current_charge))})

(***************************************************************************)
(* Callers of the class: any sequence of method calls and assignments to   *)
(* current_charge on one object.  op, args, ret and raised describe the    *)
(* last call; prev is the object as it was before that call.               *)
(***************************************************************************)
MaxYears == 12

MaxCapacity == 60

CapacitySet == {R(20), R(MaxCapacity)}

InitialSohSet == {R(100), R(80)}

ChargeSet == {R(10), R(75), R(95)}

YearsSet == {R(-1), R(0), R(2), R(MaxYears)}

CyclesSet == {R(200)}

FastChargeSet == {R(30)}

SpeedSet == {R(60), R(120)}

StyleSet == {"normal", "sport"}

TargetSet == {R(50), Rat(7501, 100), R(100)}

ChargerPowerSet == {R(0), Rat(74, 10)}

AnnualKmSet == {R(0), R(15000)}

\* the effect of a call on the object and on the record of the last call
Call(name, arguments, results) ==
    \E result \in results :
        /\ prev' = ev
        /\ ev' = result.self
        /\ op' = name
        /\ args' = arguments
        /\ ret' = result.ret
        /\ raised' = result.raised

Idle == pc = "api" /\ UNCHANGED <<pc, out, loc>>

Init ==
    /\ \E c \in CapacitySet, s \in InitialSohSet :
          /\ ev = EVBatterySystem(c, s)
          /\ args = <<c, s>>
    /\ prev = ev
    /\ op = "__init__"
    /\ ret = Nothing
    /\ raised = None
    /\ pc = "api"
    /\ out = <<>>
    /\ loc = <<>>

\* ev.current_charge = current_charge, the caller's assignment
SetCurrentCharge ==
    /\ Idle
    /\ \E c \in ChargeSet :
        Call("current_charge", <<c>>, Returns([ev EXCEPT !.current_charge = c], {Nothing}))

CallAvailableCapacity ==
    /\ Idle
    /\ Call("calculate_available_capacity", <<>>, calculate_available_capacity(ev))

CallPredictRange ==
    /\ Idle
    /\ \E s \in SpeedSet, d \in StyleSet :
        Call("predict_range", <<s, R(25), FALSE, d, "flat">>,
             predict_range(ev, s, R(25), FALSE, d, "flat"))

CallChargingTime ==
    /\ Idle
    /\ \E t \in TargetSet, p \in ChargerPowerSet :
        Call("calculate_charging_time", <<t, p>>, calculate_charging_time(ev, t, p))

CallDegradation ==
    /\ Idle
    /\ \E y \in YearsSet, c \in CyclesSet, f \in FastChargeSet :
        Call("calculate_battery_degradation", <<y, c, f>>,
             calculate_battery_degradation(ev, y, c, f))

CallCompare ==
    /\ Idle
    /\ \E k \in AnnualKmSet :
        Call("compare_ev_vs_ice", <<k, Rat(11, 10), Rat(8, 100), R(15)>>,
             compare_ev_vs_ice(ev, k, Rat(11, 10), Rat(8, 100), R(15)))

CallRecommendation ==
    /\ Idle
    /\ Call("optimal_charging_recommendation", <<>>, optimal_charging_recommendation(ev))

Next ==
    \/ SetCurrentCharge
    \/ CallAvailableCapacity
    \/ CallPredictRange
    \/ CallChargingTime
    \/ CallDegradation
    \/ CallCompare
    \/ CallRecommendation

Spec == Init /\ [][Next]_vars

(***************************************************************************)
(* One call of one method on an object a caller has constructed and        *)
(* charged, the arguments drawn from grids that straddle every threshold   *)
(* the method tests.                                                       *)
(***************************************************************************)
ChargeGrid == {R(10), R(19), R(20), R(75), R(90), R(91), R(100)}

SpeedGrid == {R(50), R(51), R(80), R(81), R(110), R(111)}

TemperatureGrid == {R(-1), R(0), R(9), R(10), R(35), R(36)}

StyleGrid == {"eco", "normal", "sport", "turbo"}

TerrainGrid == {"flat", "hilly", "mountain", "offroad"}

TargetGrid == {R(0), R(50), R(75), Rat(15001, 200), R(100)}

ChargerPowerGrid == {R(0), Rat(37, 10), Rat(74, 10), R(11), R(50), R(60), R(150)}

YearsGrid == {R(-1), R(0), Rat(1, 2), Rat(9, 5), R(2), R(5), R(10), R(MaxYears)}

CyclesGrid == {R(0), R(50), R(200), R(500)}

FastChargeGrid == {R(0), R(30), R(100)}

InitCall ==
    /\ \E c \in CapacitySet, s \in InitialSohSet, g \in ChargeGrid :
          /\ ev = [EVBatterySystem(c, s) EXCEPT !.current_charge = g]
          /\ args = <<c, s>>
    /\ prev = ev
    /\ op = "__init__"
    /\ ret = Nothing
    /\ raised = None
    /\ pc = "call"
    /\ out = <<>>
    /\ loc = <<>>

Once == pc = "call" /\ pc' = "returned" /\ UNCHANGED <<out, loc>>

OncePredictRange ==
    /\ Once
    /\ \E s \in SpeedGrid, t \in TemperatureGrid, a \in BOOLEAN,
          d \in StyleGrid, g \in TerrainGrid :
        Call("predict_range", <<s, t, a, d, g>>, predict_range(ev, s, t, a, d, g))

OnceChargingTime ==
    /\ Once
    /\ \E t \in TargetGrid, p \in ChargerPowerGrid :
        Call("calculate_charging_time", <<t, p>>, calculate_charging_time(ev, t, p))

OnceDegradation ==
    /\ Once
    /\ \E y \in YearsGrid, c \in CyclesGrid, f \in FastChargeGrid :
        Call("calculate_battery_degradation", <<y, c, f>>,
             calculate_battery_degradation(ev, y, c, f))

OnceRecommendation ==
    /\ Once
    /\ Call("optimal_charging_recommendation", <<>>, optimal_charging_recommendation(ev))

NextCall ==
    \/ OncePredictRange
    \/ OnceChargingTime
    \/ OnceDegradation
    \/ OnceRecommendation

SpecCall == InitCall /\ [][NextCall]_vars


(***************************************************************************)
(* main(), the text-prompt flow.  One action per input() call, each with   *)
(* everything main does up to the next input(): parsing the answer, the    *)
(* method call, the blocks printed.  loc holds main's local variables and, *)
(* under "stdin", the answers read so far; out is the sequence of headers  *)
(* and error lines printed; pc is the prompt main waits at.                *)
(***************************************************************************)
\* the numbers the answers of the model denote
FloatValue ==
    [s \in {"60", "2", "75", "200", "30", "80", "25", "100", "15000", "110", "8", "15",
            "0", "-1", "200.5", "120", "-5", "50"} |->
        CASE s = "200.5" -> Rat(401, 2)
          [] s = "-1" -> R(-1)
          [] s = "-5" -> R(-5)
          [] s = "0" -> R(0)
          [] s = "2" -> R(2)
          [] s = "8" -> R(8)
          [] s = "15" -> R(15)
          [] s = "25" -> R(25)
          [] s = "30" -> R(30)
          [] s = "50" -> R(50)
          [] s = "60" -> R(60)
          [] s = "75" -> R(75)
          [] s = "80" -> R(80)
          [] s = "100" -> R(100)
          [] s = "110" -> R(110)
          [] s = "120" -> R(120)
          [] s = "200" -> R(200)
          [] s = "15000" -> R(15000)]

\* float(s): the number, or ValueError
float(s) ==
    IF s \in DOMAIN FloatValue THEN [ok |-> TRUE, val |-> FloatValue[s]]
    ELSE [ok |-> FALSE, val |-> R(0)]

\* int(s): the whole number, or ValueError (a decimal point is no digit)
int(s) ==
    IF s \in DOMAIN FloatValue /\ FloatValue[s].d = 1
    THEN [ok |-> TRUE, val |-> FloatValue[s]]
    ELSE [ok |-> FALSE, val |-> R(0)]

\* input(...) or default
OrDefault(answer, default) == IF answer = "" THEN default ELSE answer

Title == "EV BATTERY INTELLIGENCE SYSTEM"

HealthReport == "BATTERY HEALTH REPORT"

RangeResults == "RANGE PREDICTION RESULTS"

ChargingEstimation == "CHARGING TIME ESTIMATION"

CostComparison == "EV vs ICE COST COMPARISON (Annual)"

Recommendations == "BATTERY CARE RECOMMENDATIONS"

Summary == "SYSTEM SUMMARY"

ValueErrorMessage == "Error: Please enter valid numeric values!"

ExceptionMessage == "An error occurred: float division by zero"

NumberAnswers == {"", "abc"}

AgeAnswers == {"", "-1", "abc"}

CyclesAnswers == {"", "200.5", "abc"}

SpeedAnswers == {"", "120", "abc"}

AcAnswers == {"", "yes"}

StyleAnswers == {"", "turbo"}

TerrainAnswers == {"", "hilly"}

TargetAnswers == {"", "50", "abc"}

ChargerAnswers == {"", "3", "9"}

ZeroAnswers == {"", "0", "abc"}

InitMain ==
    /\ ev = Nothing
    /\ prev = Nothing
    /\ op = None
    /\ args = <<>>
    /\ ret = Nothing
    /\ raised = None
    /\ pc = "battery_capacity"
    /\ out = <<Title>>
    /\ loc = [stdin |-> <<>>]

\* the answer read from the terminal
Read(locals, answer) == [locals EXCEPT !.stdin = Append(@, answer)]

\* name = value
Bind(locals, name, value) ==
    [x \in DOMAIN locals \cup {name} |-> IF x = name THEN value ELSE locals[x]]

NoCall == UNCHANGED <<ev, prev, op, args, ret, raised>>

\* an except clause that swallows the exception: main returns without a word
Except_silent(message, answer) ==
    /\ pc' = "done"
    /\ out' = out
    /\ loc' = Read(loc, answer)

\* the except clauses of main: the message, and main returns
Except(message, answer) ==
    /\ pc' = "done"
    /\ out' = Append(out, message)
    /\ loc' = Read(loc, answer)

\* name = float(input(...) or default), and on to the next prompt
InputFloat(here, there, default, answers) ==
    /\ pc = here
    /\ \E a \in answers :
        LET v == float(OrDefault(a, default))
        IN  IF ~v.ok THEN Except(ValueErrorMessage, a) /\ NoCall
            ELSE /\ pc' = there
                 /\ loc' = Bind(Read(loc, a), here, v.val)
                 /\ UNCHANGED out
                 /\ NoCall

\* name = input(...) or default, and on to the next prompt
InputText(here, there, default, answers) ==
    /\ pc = here
    /\ \E a \in answers :
        /\ pc' = there
        /\ loc' = Bind(Read(loc, a), here, OrDefault(a, default))
        /\ UNCHANGED out
        /\ NoCall

InputBatteryCapacity == InputFloat("battery_capacity", "battery_age", "60", NumberAnswers)

InputBatteryAge == InputFloat("battery_age", "current_charge", "2", AgeAnswers)

\* the third prompt, then the object is constructed and charged
InputCurrentCharge ==
    /\ pc = "current_charge"
    /\ \E a \in NumberAnswers :
        LET v == float(OrDefault(a, "75"))
        IN  IF ~v.ok THEN Except(ValueErrorMessage, a) /\ NoCall
            ELSE /\ pc' = "cycles_per_year"
                 /\ loc' = Bind(Read(loc, a), "current_charge", v.val)
                 /\ UNCHANGED out
                 /\ Call("__init__", <<loc.battery_capacity>>,
                         Returns([EVBatterySystem(loc.battery_capacity, R(100))
                                     EXCEPT !.current_charge = v.val], {Nothing}))

InputCyclesPerYear ==
    /\ pc = "cycles_per_year"
    /\ \E a \in CyclesAnswers :
        LET v == int(OrDefault(a, "200"))
        IN  IF ~v.ok THEN Except(ValueErrorMessage, a) /\ NoCall
            ELSE /\ pc' = "fast_charge_usage"
                 /\ loc' = Bind(Read(loc, a), "cycles_per_year", v.val)
                 /\ UNCHANGED out
                 /\ NoCall

\* the fifth prompt, then the degradation and the health report
InputFastChargeUsage ==
    /\ pc = "fast_charge_usage"
    /\ \E a \in NumberAnswers :
        LET v == float(OrDefault(a, "30"))
        IN  IF ~v.ok THEN Except(ValueErrorMessage, a) /\ NoCall
            ELSE /\ pc' = "speed"
                 /\ Call("calculate_battery_degradation",
                         <<loc.battery_age, loc.cycles_per_year, v.val>>,
                         calculate_battery_degradation(ev, loc.battery_age,
                                                       loc.cycles_per_year, v.val))
                 /\ loc' = Bind(Bind(Read(loc, a), "fast_charge_usage", v.val),
                                "degradation", ret')
                 /\ out' = Append(out, HealthReport)

InputSpeed == InputFloat("speed", "temperature", "80", SpeedAnswers)

InputTemperature == InputFloat("temperature", "ac_usage", "25", NumberAnswers)

\* ac_usage = input(...).lower().startswith('y')
InputAcUsage ==
    /\ pc = "ac_usage"
    /\ \E a \in AcAnswers :
        /\ pc' = "driving_style"
        /\ loc' = Bind(Read(loc, a), "ac_usage", a = "yes")
        /\ UNCHANGED out
        /\ NoCall

InputDrivingStyle == InputText("driving_style", "terrain", "normal", StyleAnswers)

\* the tenth prompt, then the range prediction and its block
InputTerrain ==
    /\ pc = "terrain"
    /\ \E a \in TerrainAnswers :
        LET terrain == OrDefault(a, "flat")
        IN  /\ Call("predict_range",
                    <<loc.speed, loc.temperature, loc.ac_usage, loc.driving_style, terrain>>,
                    predict_range(ev, loc.speed, loc.temperature, loc.ac_usage,
                                  loc.driving_style, terrain))
            /\ IF raised' # None
               THEN /\ Except(ExceptionMessage, a)
               ELSE /\ pc' = "target_charge"
                    /\ loc' = Bind(Bind(Read(loc, a), "terrain", terrain), "range_data", ret')
                    /\ out' = Append(out, RangeResults)

InputTargetCharge == InputFloat("target_charge", "charger_choice", "100", TargetAnswers)

charger_powers(choice) ==
    CASE choice = "1" -> Rat(37, 10)
      [] choice = "2" -> Rat(74, 10)
      [] choice = "3" -> R(50)
      [] choice = "4" -> R(150)
      [] OTHER -> Rat(74, 10)

\* the twelfth prompt, then the charging time and its block
InputChargerChoice ==
    /\ pc = "charger_choice"
    /\ \E a \in ChargerAnswers :
        LET charger_power == charger_powers(OrDefault(a, "2"))
        IN  /\ Call("calculate_charging_time", <<loc.target_charge, charger_power>>,
                    calculate_charging_time(ev, loc.target_charge, charger_power))
            /\ IF raised' # None
               THEN /\ Except(ExceptionMessage, a)
               ELSE /\ pc' = "annual_km"
                    /\ loc' = Bind(Bind(Read(loc, a), "charger_choice", OrDefault(a, "2")),
                                   "charging_data", ret')
                    /\ out' = Append(out, ChargingEstimation)

InputAnnualKm == InputFloat("annual_km", "petrol_price", "15000", ZeroAnswers)

InputPetrolPrice == InputFloat("petrol_price", "electricity_price", "110", NumberAnswers)

InputElectricityPrice == InputFloat("electricity_price", "ice_efficiency", "8", NumberAnswers)

\* the last prompt, then the cost comparison, the recommendations and the summary
InputIceEfficiency ==
    /\ pc = "ice_efficiency"
    /\ \E a \in ZeroAnswers :
        LET v == float(OrDefault(a, "15"))
            petrol_price_calc == RDiv(loc.petrol_price, R(100))
            electricity_price_calc == RDiv(loc.electricity_price, R(100))
        IN  IF ~v.ok THEN Except(ValueErrorMessage, a) /\ NoCall
            ELSE /\ Call("compare_ev_vs_ice",
                         <<loc.annual_km, petrol_price_calc, electricity_price_calc, v.val>>,
                         compare_ev_vs_ice(ev, loc.annual_km, petrol_price_calc,
                                           electricity_price_calc, v.val))
                 /\ IF raised' # None
                    THEN /\ Except(ExceptionMessage, a)
                    ELSE /\ pc' = "done"
                         /\ loc' = Bind(Bind(Bind(Read(loc, a), "ice_efficiency", v.val),
                                             "cost_comparison", ret'),
                                        "recommendations", recommendations(ev.current_charge))
                         /\ out' = out \o <<CostComparison, Recommendations, Summary>>

NextMain ==
    \/ InputBatteryCapacity
    \/ InputBatteryAge
    \/ InputCurrentCharge
    \/ InputCyclesPerYear
    \/ InputFastChargeUsage
    \/ InputSpeed
    \/ InputTemperature
    \/ InputAcUsage
    \/ InputDrivingStyle
    \/ InputTerrain
    \/ InputTargetCharge
    \/ InputChargerChoice
    \/ InputAnnualKm
    \/ InputPetrolPrice
    \/ InputElectricityPrice
    \/ InputIceEfficiency

SpecMain == InitMain /\ [][NextMain]_vars


(***************************************************************************)
(* Properties.                                                             *)
(***************************************************************************)
Degraded == op = "calculate_battery_degradation"

InRange(x, lo, hi) == RLe(R(lo), x) /\ RLe(x, R(hi))

\* C1: stateOfHealth never rises: after every calculate_battery_degradation
\* call, soh is at most what it was before the call.
C1_SohNeverRises == Degraded => RLe(ev.soh, prev.soh)

\* C2: every calculate_battery_degradation call, whatever numbers are passed,
\* returns current_soh within [70, 100] and degradation_percentage within
\* [0, 30], and stores a soh within [70, 100].
C2_DegradationWithinBounds ==
    Degraded =>
        /\ InRange(ret.current_soh, 70, 100)
        /\ InRange(ev.soh, 70, 100)
        /\ InRange(ret.degradation_percentage, 0, 30)

\* C3: in every reachable state calculate_available_capacity() equals
\* battery_capacity * soh / 100 and is at most battery_capacity.
C3_AvailableCapacity ==
    op = "calculate_available_capacity" =>
        /\ RMul(ret, R(100)) = RMul(ev.battery_capacity, ev.soh)
        /\ RLe(ret, ev.battery_capacity)

ReadOnlyMethods ==
    {"calculate_available_capacity", "predict_range", "calculate_charging_time",
     "compare_ev_vs_ice", "optimal_charging_recommendation"}

\* C6: the five computations other than the degradation leave battery_capacity,
\* soh and current_charge as they were; the degradation leaves battery_capacity
\* and current_charge as they were; the caller's assignment to current_charge
\* leaves battery_capacity and soh as they were.
C6_Frame ==
    [][/\ op' \in ReadOnlyMethods => ev' = ev
       /\ op' = "calculate_battery_degradation" =>
            /\ ev'.battery_capacity = ev.battery_capacity
            /\ ev'.current_charge = ev.current_charge
       /\ op' = "current_charge" =>
            /\ ev'.battery_capacity = ev.battery_capacity
            /\ ev'.soh = ev.soh]_vars

\* a read-only method has returned on an object that was degraded and charged
C6_Witness ==
    /\ op = "optimal_charging_recommendation"
    /\ RLt(ev.soh, R(100))
    /\ ev.current_charge = R(95)
    /\ Len(ret.list) = 5


ChargingTimed == op = "calculate_charging_time"

\* the energy to add, from the object before the call and the target
EnergyToAdd ==
    RDiv(RMul(RMul(prev.battery_capacity, prev.soh), RSub(args[1], prev.current_charge)),
         R(10000))

Recommended == op = "optimal_charging_recommendation"

Has(seq, x) == \E i \in 1..Len(seq) : seq[i] = x

\* C8: the list optimal_charging_recommendation returns ends with the four fixed
\* strings in their order; the low-charge warning is in it exactly when
\* current_charge < 20, the high-charge warning exactly when current_charge > 90,
\* never both, and a warning comes before the fixed strings.
C8_Recommendations ==
    Recommended =>
        LET n == Len(ret.list)
            low == prev.current_charge.n < 20 * prev.current_charge.d
            high == prev.current_charge.n > 90 * prev.current_charge.d
        IN  /\ raised = None
            /\ n >= 4
            /\ SubSeq(ret.list, n - 3, n) =
                  <<"Ideal daily range: 20% - 80% charge",
                    "Use slow charging when possible - Reduces heat stress",
                    "Avoid extreme temperatures while charging",
                    "Fast charging: Use only when necessary (<20% of charges)">>
            /\ Has(ret.list, "Charge soon - Low battery can stress cells") <=> low
            /\ Has(ret.list, "Avoid charging to 100% daily - Keep between 20-80% for longevity")
                  <=> high
            /\ ~(low /\ high)
            /\ n = 4 + (IF low THEN 1 ELSE 0) + (IF high THEN 1 ELSE 0)

\* the list for a charge of exactly 20: no warning
C8_Witness ==
    /\ Recommended
    /\ prev.current_charge = R(20)
    /\ Len(ret.list) = 4

RangePredicted == op = "predict_range"

\* the five factors as the specification tabulates them, in twentieths
SpecSpeed20(s) ==
    IF s.n <= 50 * s.d THEN 17 ELSE IF s.n <= 80 * s.d THEN 20
    ELSE IF s.n <= 110 * s.d THEN 25 ELSE 30

SpecTemperature20(t) ==
    IF t.n < 0 THEN 28 ELSE IF t.n < 10 * t.d THEN 25
    ELSE IF t.n > 35 * t.d THEN 23 ELSE 20

SpecAc20(a) == IF a THEN 23 ELSE 20

SpecStyle20(d) == IF d = "eco" THEN 17 ELSE IF d = "sport" THEN 26 ELSE 20

SpecTerrain20(g) == IF g = "hilly" THEN 24 ELSE IF g = "mountain" THEN 28 ELSE 20

\* 15 times the product of the five factors
SpecConsumption ==
    Rat(15 * SpecSpeed20(args[1]) * SpecTemperature20(args[2]) * SpecAc20(args[3])
           * SpecStyle20(args[4]) * SpecTerrain20(args[5]),
        3200000)

SpecUsableEnergy ==
    RDiv(RMul(RMul(prev.battery_capacity, prev.soh), prev.current_charge), R(10000))

\* C9: predict_range raises nothing, whatever the style and terrain; the
\* consumption it returns is 15 times the product of the five tabulated factors
\* (to the 2 places returned), which is never zero; the range it returns is
\* usable energy / consumption * 100 (to the 2 places returned).
C9_PredictRange ==
    RangePredicted =>
        /\ raised = None
        /\ SpecConsumption.n > 0
        /\ ret.consumption_per_100km \in Round(SpecConsumption, 2)
        /\ ret.available_energy_kwh \in Round(SpecUsableEnergy, 2)
        /\ RDiv(ret.range_km, R(100)) \in Round(RDiv(SpecUsableEnergy, SpecConsumption), 4)

\* a prediction at the first speed threshold with a style and a terrain outside the tables
C9_Witness ==
    /\ RangePredicted
    /\ args = <<R(50), R(36), TRUE, "turbo", "offroad">>
    /\ raised = None
    /\ prev.current_charge = R(75)

\* the banding of a soh
Banding(x) ==
    IF x.n >= 95 * x.d THEN "Excellent"
    ELSE IF x.n >= 85 * x.d THEN "Good"
    ELSE IF x.n >= 75 * x.d THEN "Fair"
    ELSE "Poor - Consider replacement"

\* C10 as stated: health_status is the banding of the current_soh returned in
\* the same result (the soh rounded to 1 place).
C10_StatusOfReturnedSoh == Degraded => ret.health_status = Banding(ret.current_soh)

\* C10 amended: health_status is the banding of the soh the call stores,
\* before it is rounded: 'Excellent' exactly when soh >= 95, 'Good' when
\* 85 <= soh < 95, 'Fair' when 75 <= soh < 85, 'Poor' otherwise; the current_soh
\* returned beside it is that soh rounded to 1 place.
C10_StatusOfStoredSoh ==
    Degraded =>
        /\ ret.health_status = Banding(ev.soh)
        /\ ret.current_soh \in Round(ev.soh, 1)

\* a degradation whose soh, 94.96, is reported as 95.0
C10_Witness ==
    /\ Degraded
    /\ ev.soh = Rat(9496, 100)
    /\ ret.current_soh = R(95)
    /\ ret.health_status = "Good"


\* the prompts of main that ask for a number, by their place in the dialogue
NumericPrompts == {1, 2, 3, 4, 5, 6, 7, 11, 13, 14, 15, 16}

\* the answers of the model that are decimal numerals
Numerals == {"-1", "0", "50", "120", "200.5"}

\* the answer is empty (the default stands) or a number; the fourth prompt,
\* the cycles per year, takes whole numbers only
ValidAt(k, a) == a = "" \/ (a \in Numerals /\ (k = 4 => a # "200.5"))

ResultBlocks ==
    {HealthReport, RangeResults, ChargingEstimation, CostComparison, Recommendations, Summary}

\* the result blocks main has printed when it reads the answer to prompt k
BlocksBefore(k) ==
    IF k <= 5 THEN <<>>
    ELSE IF k <= 10 THEN <<HealthReport>>
    ELSE IF k <= 12 THEN <<HealthReport, RangeResults>>
    ELSE <<HealthReport, RangeResults, ChargingEstimation>>

\* the last answer read is an invalid answer to a numeric prompt
InvalidAnswer ==
    LET k == Len(loc.stdin)
    IN  k > 0 /\ k \in NumericPrompts /\ ~ValidAt(k, loc.stdin[k])

\* C4 as stated: when an answer is not a valid number, no result block has been
\* printed by the time the error message appears, whichever prompt it was.
C4_NoPartialOutput ==
    Has(out, ValueErrorMessage) => \A i \in 1..Len(out) : out[i] \notin ResultBlocks

\* C4 amended: an answer to a numeric prompt that is not a valid number (for
\* the cycles per year: not a whole number) aborts main with the error message
\* as its last output; the result blocks of the computations that came before
\* that prompt are already printed by then (none for the first five prompts,
\* the health report from the speed prompt on, the range results from the
\* target charge prompt on, the charging estimation from the annual distance
\* prompt on), and no block is printed after the message.
C4_AbortKeepsEarlierBlocks ==
    InvalidAnswer =>
        /\ pc = "done"
        /\ out = <<Title>> \o BlocksBefore(Len(loc.stdin)) \o <<ValueErrorMessage>>

\* the speed prompt was answered "abc" after the health report was printed
C4_Witness ==
    /\ pc = "done"
    /\ Len(loc.stdin) = 6
    /\ loc.stdin[6] = "abc"
    /\ out = <<Title, HealthReport, ValueErrorMessage>>

\* C5: when every answer to a numeric prompt is a valid number, the four
\* computations return without raising and main reaches the system summary.
C5_NumbersReachSummary ==
    (pc = "done" /\ \A k \in 1..Len(loc.stdin) :
                        k \in NumericPrompts => ValidAt(k, loc.stdin[k]))
        => (raised = None /\ out[Len(out)] = Summary)


Compared == op = "compare_ev_vs_ice"

\* the models a second caller may hold: every capacity, soh and charge of the
\* model's sets, whatever calls were made on them before
OtherModels ==
    {[battery_capacity |-> c, soh |-> s, current_charge |-> q] :
        c \in CapacitySet, s \in {R(70), R(80), R(100)}, q \in ChargeSet \cup {R(100)}}

\* what compare_ev_vs_ice gives on a model for the arguments a: the mappings it
\* may return, or the exception it raises
CompareOutcomes(self, a) ==
    {[ret |-> o.ret, raised |-> o.raised] : o \in compare_ev_vs_ice(self, a[1], a[2], a[3], a[4])}

\* C11: the result of compare_ev_vs_ice depends only on its four arguments:
\* whatever calls came before it and whatever the capacity, soh and charge of
\* the model it is called on, every other model returns for the same arguments
\* exactly the mapping this call returned (or raises as this call raised).
C11_CompareDependsOnArgumentsOnly ==
    Compared =>
        \A m \in OtherModels : CompareOutcomes(m, args) = {[ret |-> ret, raised |-> raised]}

\* a comparison has returned on a small, degraded, nearly empty battery
C11_Witness ==
    /\ Compared
    /\ raised = None
    /\ prev.battery_capacity = R(20)
    /\ RLt(prev.soh, R(100))
    /\ prev.current_charge = R(10)
    /\ ret.ev_annual_cost = R(180)
    /\ ret.annual_savings = R(920)

====
